---- MODULE Spec2Model ----
(***************************************************************************)
(* A model of the nuXgal likelihood engines, KIPAC/nuXgal/Likelihood.py    *)
(* (class Likelihood) and KIPAC/nuXgal/BeamLikelihood.py (class            *)
(* BeamLikelihood).                                                        *)
(*                                                                         *)
(* Numbers.  A Python float is modelled by an exact rational <<n, d>> in   *)
(* lowest terms with d > 0; d = 0 marks the non-finite floats: <<1, 0>> is *)
(* inf, <<-1, 0>> is -inf and <<0, 0>> is nan.  A standard deviation is    *)
(* held as the record [sq |-> v] of its square v, so that np.sqrt and      *)
(* x ** 2 stay exact.  A returned float is held in the exact form          *)
(* [q, h, k, det], standing for q + h * (k * ln(2 pi) + ln(det)).          *)
(*                                                                         *)
(* Arrays.  A numpy vector is a sequence; Python index i is TLA+ index     *)
(* i + 1.  A 2-d array is a sequence of rows.                              *)
(***************************************************************************)
EXTENDS Integers, Sequences, FiniteSets, TLC

(***************************************************************************)
(* Program constants (Defaults.py) and the bounds of the model.            *)
(***************************************************************************)
\* Defaults.NSIDE, scaled down from 128: the pixelization of the model
NSIDE == 4
\* Defaults.NEEdges: 4 edges, 3 energy bins
NEEdges == 4
NEbin == NEEdges - 1
NCL == 3 * NSIDE
MAX_L == NCL - 1
\* the number of steps of the longest MCMC run of the model
MaxNstep == 2
\* the largest number of realizations TS_distribution is called with
MaxN_re == 2

(***************************************************************************)
(* Float arithmetic on exact rationals.                                    *)
(***************************************************************************)
Abs(n) == IF n < 0 THEN -n ELSE n

Sign(n) == IF n < 0 THEN -1 ELSE IF n > 0 THEN 1 ELSE 0

RECURSIVE GCD(_, _)
GCD(a, b) == IF b = 0 THEN a ELSE GCD(b, a % b)

Norm(n, d) ==
    IF d = 0 THEN <<Sign(n), 0>>
    ELSE LET g == GCD(Abs(n), Abs(d))
         IN  <<Sign(d) * (n \div g), Abs(d) \div g>>

R(n) == <<n, 1>>
Zero == <<0, 1>>
One == <<1, 1>>
Half == <<1, 2>>
Inf == <<1, 0>>
NegInf == <<-1, 0>>
NaN == <<0, 0>>

IsFinite(a) == a[2] # 0
IsNaN(a) == a = NaN

RNeg(a) == <<-a[1], a[2]>>

RAdd(a, b) ==
    IF a[2] = 1 /\ b[2] = 1 THEN <<a[1] + b[1], 1>>
    ELSE IF IsFinite(a) /\ IsFinite(b)
    THEN LET g == GCD(a[2], b[2])
         IN  Norm(a[1] * (b[2] \div g) + b[1] * (a[2] \div g), (a[2] \div g) * b[2])
    ELSE IF IsNaN(a) \/ IsNaN(b) THEN NaN
    ELSE IF IsFinite(a) THEN b
    ELSE IF IsFinite(b) THEN a
    ELSE IF a = b THEN a ELSE NaN

RSub(a, b) == RAdd(a, RNeg(b))

RMul(a, b) ==
    IF a[2] = 1 /\ b[2] = 1 THEN <<a[1] * b[1], 1>>
    ELSE IF IsFinite(a) /\ IsFinite(b)
    THEN LET g == GCD(Abs(a[1]), b[2])
             h == GCD(Abs(b[1]), a[2])
         IN  Norm((a[1] \div g) * (b[1] \div h), (a[2] \div h) * (b[2] \div g))
    ELSE IF IsNaN(a) \/ IsNaN(b) \/ a[1] = 0 \/ b[1] = 0 THEN NaN
    ELSE <<Sign(a[1]) * Sign(b[1]), 0>>

\* IEEE division as numpy performs it: x/0 is +-inf, 0/0 and inf/inf are nan
RDiv(a, b) ==
    IF b = <<1, 1>> THEN a
    ELSE IF IsFinite(a) /\ IsFinite(b)
    THEN IF b[1] = 0 THEN <<Sign(a[1]), 0>> ELSE RMul(a, <<Sign(b[1]) * b[2], Abs(b[1])>>)
    ELSE IF IsNaN(a) \/ IsNaN(b) THEN NaN
    ELSE IF IsFinite(a) THEN Zero
    ELSE IF IsFinite(b) THEN <<a[1] * (IF b[1] < 0 THEN -1 ELSE 1), 0>>
    ELSE NaN

RSq(a) == RMul(a, a)

\* a < b on floats: every comparison with nan is false
RLt(a, b) ==
    IF IsNaN(a) \/ IsNaN(b) THEN FALSE
    ELSE IF IsFinite(a) /\ IsFinite(b) THEN a[1] * b[2] < b[1] * a[2]
    ELSE IF IsFinite(a) THEN b = Inf
    ELSE IF IsFinite(b) THEN a = NegInf
    ELSE a = NegInf /\ b = Inf

RLe(a, b) == ~IsNaN(a) /\ ~IsNaN(b) /\ ~RLt(b, a)

RECURSIVE RSum(_)
RSum(s) == IF s = <<>> THEN Zero ELSE RAdd(Head(s), RSum(Tail(s)))

\* an array built element by element, as the tuple of its elements
Arr(f) == f \o <<>>

(***************************************************************************)
(* numpy indexing.                                                         *)
(***************************************************************************)
\* int(a / b) for a >= 0, b > 0
IntDiv(a, b) == a \div b

\* the bounds of a Python slice [lo:hi] of a sequence of length n, with
\* negative bounds counted from the end and both clipped to 0..n
SliceBound(i, n) == IF i < 0 THEN (IF n + i < 0 THEN 0 ELSE n + i)
                    ELSE IF i > n THEN n ELSE i

\* s[lo:hi]
PySlice(s, lo, hi) ==
    LET a == SliceBound(lo, Len(s))
        b == SliceBound(hi, Len(s))
    IN  IF a >= b THEN <<>> ELSE SubSeq(s, a + 1, b)

\* s[lo:]
PyFrom(s, lo) == PySlice(s, lo, Len(s))

\* s[::step][:-1], step >= 1
Strided(s, step) ==
    LET n == (Len(s) + step - 1) \div step
    IN  Arr([k \in 1..(IF n = 0 THEN 0 ELSE n - 1) |-> s[(k - 1) * step + 1]])

(***************************************************************************)
(* The rebinning utility bin_llcl(spectrum, width): the mean of each       *)
(* width-wide block of multipoles, the trailing incomplete block dropped.  *)
(***************************************************************************)
BinCount(len, width) == IntDiv(len - 1, width)

bin_llcl(cl, width) ==
    Arr([k \in 1..BinCount(Len(cl), width) |->
        RDiv(RSum(SubSeq(cl, (k - 1) * width + 1, k * width)), R(width))])

(***************************************************************************)
(* The collaborators' data: the template sets an engine can be built on    *)
(* (galaxy sample, background model, template cache files) and the         *)
(* neutrino samples it can ingest.  Energy bins and multipoles are the     *)
(* Python indices e \in 0..NEbin-1 and l \in 0..NCL-1.                      *)
(***************************************************************************)
Templates == {"flat", "tilt"}

\* gs.getAutoCorrelation(), and each row of the signal template file
SigFine(t) == Arr([i \in 1..NCL |-> IF t = "flat" THEN R(5) ELSE R(3 + ((i - 1) % 3))])

\* background_model.w_mean[e], and row e of the background mean file
AtmMeanFine(t, e) == Arr([i \in 1..NCL |-> IF t = "flat" THEN R(0) ELSE R((i - 1 + e) % 2)])

\* background_model.w_std[e], and row e of the background std file
AtmStdFine(t, e) == Arr([i \in 1..NCL |-> IF t = "flat" THEN R(1) ELSE R(1 + ((i - 1) % 2))])

\* "bkg" and "sig" repeat the background and the signal template, "anti" is
\* the background minus the signal excess, "wave" a spectrum between them
SampleKinds == {"bkg", "sig", "anti", "wave"}

\* the fine cross spectrum of sample s in energy bin e
SampleCl(s, t, e) ==
    LET Bs == AtmMeanFine(t, e)
        Ss == SigFine(t)
    IN  Arr([i \in 1..NCL |->
            LET B == Bs[i]
                S == Ss[i]
            IN  CASE s = "bkg" -> B
                  [] s = "sig" -> S
                  [] s = "anti" -> RSub(RAdd(B, B), S)
                  [] OTHER -> IF (i - 1) % 2 = 0 THEN S ELSE RAdd(B, R(e))])

\* the fine analytic covariance of sample s in energy bin e: "wave" has
\* correlated multipoles, the others a diagonal covariance
SampleCov(s, t, e) ==
    Arr([i \in 1..NCL |-> Arr([j \in 1..NCL |->
        IF s = "wave" THEN (IF i = j THEN R(2) ELSE R(1))
        ELSE IF i # j THEN Zero
        ELSE IF t = "flat" THEN One ELSE R(1 + ((i - 1) % 3))])])

\* ns.getEventCounts()
SampleCounts(s) ==
    Arr([e \in 1..NEbin |-> (CASE s = "bkg" -> 10 [] s = "sig" -> 20
                               [] s = "anti" -> 30 [] OTHER -> 40) + e])

(***************************************************************************)
(* The state of one engine and of its surroundings.                        *)
(***************************************************************************)
VARIABLES
    cls,              \* "Likelihood" or "BeamLikelihood"
    tmpl,             \* the template set the engine was built on (self.gs)
    Ebinmin, Ebinmax, lmin, lbin, err_type,
    idx_mask,         \* the masked pixels, detector and galaxy mask merged
    f_sky,            \* the sky fraction
    w_model_f1,       \* signal template
    w_model_f1_ndim,  \* its number of axes
    w_atm_mean,       \* background template mean, one row per energy bin
    w_atm_std,        \* background template std
    w_atm_std_square,
    neutrino_sample,  \* the sample last ingested, "none" before inputData
    w_data,           \* observed spectrum, <<>> for None
    w_cov,            \* covariance (BeamLikelihood)
    w_std, w_std_square,
    Ncount,
    boot,             \* the draws bootstrapSigma made for the last inputData
    chain,            \* the samples in the HDF chain store of (galaxy, N_yr)
    nLikeEvals,       \* log_likelihood evaluations made by the last call
    soln,             \* the OptimizeResult of the last numeric minimisation
    ret               \* the last call and what it returned

config == <<cls, tmpl, Ebinmin, Ebinmax, lmin, lbin, err_type, idx_mask, f_sky>>
templates == <<w_model_f1, w_model_f1_ndim, w_atm_mean, w_atm_std, w_atm_std_square>>
data == <<neutrino_sample, w_data, w_cov, w_std, w_std_square, Ncount>>
engine == <<config, templates, data>>
vars == <<engine, boot, chain, nLikeEvals, soln, ret>>

\* the configurations an engine is constructed with: the class, the template
\* set, Ebinmin, Ebinmax, lmin, and for BeamLikelihood lbin and err_type
LbinChoices == {1, 2, 5}
Configs ==
    {<<"Likelihood", "flat", 0, 1, 2, 1, "none">>,
     <<"Likelihood", "tilt", 1, 3, 1, 1, "none">>,
     <<"BeamLikelihood", "flat", 0, 1, 1, 1, "polspice">>,
     <<"BeamLikelihood", "tilt", 1, 3, 2, 2, "polspice">>,
     <<"BeamLikelihood", "tilt", 0, 1, 1, 1, "bootstrap">>}

\* the configurations on the edges of what BeamLikelihood.__init__ takes: an
\* err_type that is neither 'bootstrap' nor 'polspice', with an active bin
\* and with none; a reversed bin range and one that overruns the NEbin energy
\* bins; an lmin that is no multiple of lbin; an lbin that does not divide NCL;
\* and a Likelihood, whose templates are loaded from the cache files
SetupConfigs ==
    {<<"BeamLikelihood", "flat", 0, 1, 1, 1, "other">>,
     <<"BeamLikelihood", "flat", 1, 1, 1, 1, "other">>,
     <<"BeamLikelihood", "tilt", 2, 1, 2, 2, "polspice">>,
     <<"BeamLikelihood", "tilt", 2, 4, 2, 2, "polspice">>,
     <<"BeamLikelihood", "tilt", 0, 1, 3, 2, "polspice">>,
     <<"BeamLikelihood", "tilt", 0, 2, 1, 5, "polspice">>,
     <<"Likelihood", "tilt", 0, 1, 1, 1, "none">>}

\* a standard deviation, held by its square
StdOf(r) == [sq |-> RSq(r)]
SqrtOf(v) == [sq |-> v]
StdSquare(s) == s.sq
ZeroStd == [sq |-> Zero]

Zeros(n) == Arr([i \in 1..n |-> Zero])
ZeroStds(n) == Arr([i \in 1..n |-> ZeroStd])
ZeroMatrix(n) == Arr([i \in 1..n |-> Zeros(n)])

\* A returned float is held exactly as q + h * (k * ln(2 pi) + ln(det)): the
\* log-density of a k-dimensional normal is -maha/2 - (k ln(2 pi) + ln det)/2
Val(q, h, k, det) ==
    IF k = 0 /\ det = One THEN [q |-> q, h |-> Zero, k |-> 0, det |-> One]
    ELSE [q |-> q, h |-> h, k |-> k, det |-> det]
RVal(q) == Val(q, Zero, 0, One)
IsNumber(v) == v.k = 0 /\ v.det = One
VAdd(a, b) == Val(RAdd(a.q, b.q), IF IsNumber(a) THEN b.h ELSE a.h,
                  a.k + b.k, RMul(a.det, b.det))
VScale(a, c) == Val(RMul(a.q, c), RMul(a.h, c), a.k, a.det)
\* a - b, for two values with the same coefficient h
VSub(a, b) == Val(RSub(a.q, b.q), IF IsNumber(a) THEN RNeg(b.h) ELSE a.h,
                  a.k - b.k, RDiv(a.det, b.det))

\* the outcome of a call: the exception it raised, or the value it returned
Ok(v) == [err |-> "", val |-> v]
Raise(e) == [err |-> e, val |-> RVal(Zero)]

NoSoln == [x |-> <<>>, success |-> FALSE]
NoRet == [op |-> "__init__", f |-> <<>>, ebin |-> 0, mp_cpus |-> 0, err |-> "",
          val |-> RVal(Zero), x |-> <<>>, N_re |-> 0, TS_array |-> <<>>]

(***************************************************************************)
(* Construction.  Likelihood.__init__ (computeSTD = False) loads its       *)
(* templates from the cache files; BeamLikelihood.__init__ rebins the      *)
(* galaxy autocorrelation and the background model.                        *)
(***************************************************************************)
\* the squares of a 2-d array of stds
Squares(std) == Arr([e \in 1..Len(std) |-> Arr([j \in 1..Len(std[e]) |-> StdSquare(std[e][j])])])

\* np.loadtxt(fname).reshape((NEbin, NCL)) of a cache file: saved is the
\* array the file was written from, cache the state of the file: "saved" as
\* the engine writes it, "transposed" one multipole per line, "short" a
\* multipole missing from every line, "missing" no file.  reshape regroups
\* the values in the order read and raises only when their number differs
loadtxt_reshape(saved, cache) ==
    LET file == CASE cache = "transposed" ->
                       Arr([l \in 1..NCL |-> Arr([e \in 1..NEbin |-> saved[e][l]])])
                  [] cache = "short" ->
                       Arr([e \in 1..NEbin |-> SubSeq(saved[e], 1, NCL - 1)])
                  [] OTHER -> saved
        cols == Len(file[1])
        flat == Arr([k \in 1..(Len(file) * cols) |->
                    file[IntDiv(k - 1, cols) + 1][((k - 1) % cols) + 1]])
    IN  IF cache = "missing" THEN [err |-> "OSError", a |-> <<>>]
        ELSE IF Len(flat) # NEbin * NCL THEN [err |-> "ValueError", a |-> <<>>]
        ELSE [err |-> "",
              a |-> Arr([e \in 1..NEbin |-> SubSeq(flat, (e - 1) * NCL + 1, e * NCL)])]

\* the templates Likelihood.__init__ loads with computeSTD = False, err the
\* exception the first file raises
LikelihoodTemplates(t, cache) ==
    LET std == loadtxt_reshape(
                   Arr([e \in 1..NEbin |->
                       LET fine == AtmStdFine(t, e - 1)
                       IN  Arr([i \in 1..NCL |-> StdOf(fine[i])])]), cache)
        mean == loadtxt_reshape(Arr([e \in 1..NEbin |-> AtmMeanFine(t, e - 1)]), cache)
        astro == loadtxt_reshape(Arr([e \in 1..NEbin |-> SigFine(t)]), cache)
    IN  [err |-> std.err,
         w_model_f1 |-> astro.a,
         ndim |-> IF std.err = "" THEN 2 ELSE 0,
         w_atm_mean |-> mean.a,
         w_atm_std |-> std.a,
         w_atm_std_square |-> Squares(std.a)]

\* w_std[ebin, ::lbin][:-1] / np.sqrt(lbin)
SubsampledStd(fine, width) ==
    LET sub == Strided(fine, width)
    IN  Arr([j \in 1..Len(sub) |-> SqrtOf(RDiv(StdSquare(StdOf(sub[j])), R(width)))])

BeamTemplates(t, width) ==
    LET std == Arr([e \in 1..NEbin |-> SubsampledStd(AtmStdFine(t, e - 1), width)])
    IN  [w_model_f1 |-> bin_llcl(SigFine(t), width),
         ndim |-> 1,
         w_atm_mean |-> Arr([e \in 1..NEbin |-> bin_llcl(AtmMeanFine(t, e - 1), width)]),
         w_atm_std |-> std,
         w_atm_std_square |-> Squares(std)]

\* Defaults.NPIXEL = nside2npix(NSIDE)
NPIXEL == 12 * NSIDE * NSIDE

\* anafastMask() on a galaxy sample whose mask is sky: the pixels of
\* Defaults.idx_muon (colatitude above 95 degrees: in ring order, the pixels
\* after the equatorial ring) and of gs.idx_galaxymask are merged, and f_sky
\* is set from their number.  The galaxy mask "cap" covers the first
\* NSIDE * NSIDE pixels, "all" the whole sky
anafastMask(sky) ==
    LET idx_muon == {p \in 0..(NPIXEL - 1) : p >= (NPIXEL \div 2) + 2 * NSIDE}
        idx_galaxymask == IF sky = "all" THEN 0..(NPIXEL - 1) ELSE 0..(NSIDE * NSIDE - 1)
        merged == idx_muon \cup idx_galaxymask
    IN  [idx_mask |-> merged,
         f_sky |-> RSub(One, RDiv(R(Cardinality(merged)), R(NPIXEL)))]

\* no draws made in any energy bin
NoBoot == Arr([e \in 1..NEbin |-> <<>>])

InitWith(configs, skies, caches) ==
    /\ \E sky \in skies :
          /\ idx_mask = anafastMask(sky).idx_mask
          /\ f_sky = anafastMask(sky).f_sky
    /\ \E c \in configs :
          /\ cls = c[1]
          /\ tmpl = c[2]
          /\ Ebinmin = c[3]
          /\ Ebinmax = c[4]
          /\ lmin = c[5]
          /\ lbin = c[6]
          /\ err_type = c[7]
    /\ \E cache \in (IF cls = "Likelihood" THEN caches ELSE {"saved"}) :
       LET T == IF cls = "BeamLikelihood" THEN BeamTemplates(tmpl, lbin)
                ELSE LikelihoodTemplates(tmpl, cache)
       IN  /\ ret = IF cls = "Likelihood" /\ T.err # ""
                    THEN [NoRet EXCEPT !.err = T.err] ELSE NoRet
           /\ w_model_f1 = T.w_model_f1
           /\ w_model_f1_ndim = T.ndim
           /\ w_atm_mean = T.w_atm_mean
           /\ w_atm_std = T.w_atm_std
           /\ w_atm_std_square = T.w_atm_std_square
    /\ neutrino_sample = "none"
    /\ w_data = <<>>
    /\ w_cov = <<>>
    /\ w_std = <<>>
    /\ w_std_square = <<>>
    /\ Ncount = <<>>
    /\ boot = NoBoot
    /\ chain = <<>>
    /\ nLikeEvals = 0
    /\ soln = NoSoln

Init == InitWith(Configs, {"cap"}, {"saved"})
InitSetup == InitWith(SetupConfigs, {"cap", "all"},
                      {"saved", "transposed", "short", "missing"})

\* range(Ebinmin, Ebinmax)
ActiveBins == {e \in (-NEbin)..NEbin : Ebinmin <= e /\ e < Ebinmax}
len_f == IF Ebinmax > Ebinmin THEN Ebinmax - Ebinmin ELSE 0

(***************************************************************************)
(* bootstrapSigma(ebin, niter): the spectra of niter resamplings of the    *)
(* event list, rebinned, then their std and covariance over the draws.     *)
(***************************************************************************)
\* the draws of the model: each resampled spectrum lies one unit below or
\* above the sample's own
BootIter == 2
DrawKinds == {"lo", "hi"}
\* the draws of one bootstrapSigma call, in the order low to high
Draws == {d \in {Arr(x) : x \in [1..BootIter -> DrawKinds]} :
            \A i, j \in 1..BootIter : i < j => ~(d[i] = "hi" /\ d[j] = "lo")}

\* bootstrap_worker: the rebinned cross spectrum of one resampled event list
bootstrap_worker(s, t, e, width, kind) ==
    LET own == SampleCl(s, t, e)
        cl == Arr([i \in 1..NCL |-> RAdd(own[i], IF kind = "lo" THEN R(-1) ELSE R(1))])
    IN  bin_llcl(cl, width)

\* np.mean(cl, axis=0)
DrawMean(cl) ==
    Arr([j \in 1..Len(cl[1]) |-> RDiv(RSum(Arr([i \in 1..Len(cl) |-> cl[i][j]])), R(Len(cl)))])

\* np.std(cl, axis=0): the population std, by its square
DrawStd(cl) ==
    LET m == DrawMean(cl)
    IN  Arr([j \in 1..Len(cl[1]) |->
            SqrtOf(RDiv(RSum(Arr([i \in 1..Len(cl) |-> RSq(RSub(cl[i][j], m[j]))])),
                        R(Len(cl))))])

\* np.cov(cl.T): the sample covariance, normalised by niter - 1
DrawCov(cl) ==
    LET m == DrawMean(cl)
        dev == Arr([i \in 1..Len(cl) |-> Arr([j \in 1..Len(cl[1]) |-> RSub(cl[i][j], m[j])])])
    IN  Arr([j \in 1..Len(cl[1]) |-> Arr([k \in 1..Len(cl[1]) |->
            RDiv(RSum(Arr([i \in 1..Len(cl) |-> RMul(dev[i][j], dev[i][k])])),
                 R(Len(cl) - 1))])])

\* the pair (std, cov) that bootstrapSigma returns
bootstrapSigma(s, t, e, width, draws) ==
    LET cl == Arr([i \in 1..Len(draws) |-> bootstrap_worker(s, t, e, width, draws[i])])
    IN  <<DrawStd(cl), DrawCov(cl)>>

\* the tables of what the collaborators return, computed once: the rebinned
\* cross spectrum, the subsampled analytic covariance and bootstrapSigma(...)[0]
BinnedClTable ==
    [s \in SampleKinds, t \in Templates, e \in 0..(NEbin - 1), w \in LbinChoices |->
        bin_llcl(SampleCl(s, t, e), w)]
BootStdTable ==
    [s \in SampleKinds, t \in Templates, e \in 0..(NEbin - 1), w \in LbinChoices, d \in Draws |->
        bootstrapSigma(s, t, e, w, d)[1]]
BootCovTable ==
    [s \in SampleKinds, t \in Templates, e \in 0..(NEbin - 1), w \in LbinChoices, d \in Draws |->
        bootstrapSigma(s, t, e, w, d)[2]]

(***************************************************************************)
(* inputData(ns).                                                          *)
(***************************************************************************)
\* w_cov[::lbin, ::lbin][:-1, :-1]
SubsampledCov(cov, width) ==
    LET rows == Strided(cov, width)
    IN  Arr([j \in 1..Len(rows) |-> Strided(rows[j], width)])

Diag(m) == Arr([j \in 1..Len(m) |-> m[j][j]])

\* np.sqrt(np.diag(w_cov[ebin]) / lbin)
PolspiceStd(cov, width) == Arr([j \in 1..Len(cov) |-> SqrtOf(RDiv(cov[j][j], R(width)))])

SubsampledCovTable ==
    [s \in SampleKinds, t \in Templates, e \in 0..(NEbin - 1), w \in LbinChoices |->
        SubsampledCov(SampleCov(s, t, e), w)]

Called(op) == [NoRet EXCEPT !.op = op]

\* the exception BeamLikelihood.inputData ends with, "" if none: the first
\* loop overruns the NEbin rows of w_data, or the second loop raises on its
\* first active bin.  bootstrapSigma with mp_cpus > 1 reads self.ana, which
\* no method of the class assigns
BeamInputDataError(mp_cpus) ==
    IF \E e \in ActiveBins : e >= NEbin THEN "IndexError"
    ELSE IF ActiveBins = {} THEN ""
    ELSE IF err_type = "bootstrap" THEN (IF mp_cpus > 1 THEN "AttributeError" ELSE "")
    ELSE IF err_type = "polspice" THEN ""
    ELSE "ValueError"

\* inputData leaving a std it had already estimated in place instead of
\* estimating it again for the new sample
BeamInputData_std_kept(s, draws, mp_cpus) ==
    LET nC == IntDiv(MAX_L, lbin)
        act(e) == (e - 1) \in ActiveBins
        cov == Arr([e \in 1..NEbin |->
                  IF act(e) THEN SubsampledCovTable[s, tmpl, e - 1, lbin]
                  ELSE ZeroMatrix(nC)])
        raised == BeamInputDataError(mp_cpus)
        drawn == Arr([e \in 1..NEbin |->
                  IF act(e) /\ err_type = "bootstrap" /\ raised = ""
                  THEN draws[e - 1] ELSE <<>>])
        std == Arr([e \in 1..NEbin |->
                  IF ~act(e) \/ raised # "" THEN ZeroStds(nC)
                  ELSE IF err_type = "bootstrap"
                  THEN BootStdTable[s, tmpl, e - 1, lbin, drawn[e]]
                  ELSE PolspiceStd(cov[e], lbin)])
    IN  /\ neutrino_sample' = s
        /\ w_data' = Arr([e \in 1..NEbin |->
                        IF act(e) THEN BinnedClTable[s, tmpl, e - 1, lbin]
                        ELSE Zeros(nC)])
        /\ w_cov' = cov
        /\ IF raised = "IndexError"
           THEN UNCHANGED <<Ncount, w_std, w_std_square>>
           ELSE /\ Ncount' = SampleCounts(s)
                /\ w_std' = IF w_std = <<>> THEN std ELSE w_std
                /\ w_std_square' = Squares(w_std')
        /\ boot' = drawn

\* BeamLikelihood.inputData: the sample's spectrum and analytic covariance
\* are stored for the active energy bins, then the std of each active bin is
\* set from the bootstrap or from the covariance diagonal
BeamInputData(s, draws, mp_cpus) ==
    LET nC == IntDiv(MAX_L, lbin)
        act(e) == (e - 1) \in ActiveBins
        cov == Arr([e \in 1..NEbin |->
                  IF act(e) THEN SubsampledCovTable[s, tmpl, e - 1, lbin]
                  ELSE ZeroMatrix(nC)])
        raised == BeamInputDataError(mp_cpus)
        drawn == Arr([e \in 1..NEbin |->
                  IF act(e) /\ err_type = "bootstrap" /\ raised = ""
                  THEN draws[e - 1] ELSE <<>>])
        std == Arr([e \in 1..NEbin |->
                  IF ~act(e) \/ raised # "" THEN ZeroStds(nC)
                  ELSE IF err_type = "bootstrap"
                  THEN BootStdTable[s, tmpl, e - 1, lbin, drawn[e]]
                  ELSE PolspiceStd(cov[e], lbin)])
    IN  /\ neutrino_sample' = s
        /\ w_data' = Arr([e \in 1..NEbin |->
                        IF act(e) THEN BinnedClTable[s, tmpl, e - 1, lbin]
                        ELSE Zeros(nC)])
        /\ w_cov' = cov
        /\ IF raised = "IndexError"
           THEN UNCHANGED <<Ncount, w_std, w_std_square>>
           ELSE /\ Ncount' = SampleCounts(s)
                /\ w_std' = std
                /\ w_std_square' = Squares(std)
        /\ boot' = drawn

\* Likelihood.inputData with bootstrap_error = []: the sample's spectrum is
\* stored and the std is copied from the background template
LikelihoodInputData(s) ==
    /\ neutrino_sample' = s
    /\ w_data' = Arr([e \in 1..NEbin |-> SampleCl(s, tmpl, e - 1)])
    /\ Ncount' = SampleCounts(s)
    /\ w_std' = w_atm_std
    /\ w_std_square' = w_atm_std_square
    /\ UNCHANGED <<w_cov, boot>>

\* the mp_cpus inputData is called with: only bootstrapSigma reads it
MpCpus == IF err_type = "bootstrap" THEN {1, 2} ELSE {1}

inputData ==
    /\ w_atm_mean # <<>>
    /\ \E s \in SampleKinds :
          IF cls = "BeamLikelihood"
          THEN \E draws \in [ActiveBins -> Draws], mp_cpus \in MpCpus :
                  /\ BeamInputData(s, draws, mp_cpus)
                  /\ ret' = [Called("inputData") EXCEPT !.mp_cpus = mp_cpus,
                                                        !.err = BeamInputDataError(mp_cpus)]
          ELSE /\ LikelihoodInputData(s)
               /\ ret' = Called("inputData")
    /\ nLikeEvals' = 0
    /\ soln' = NoSoln
    /\ UNCHANGED <<config, templates, chain>>

\* BeamLikelihood.init_from_run(**kwargs) with the kwargs of a run of this
\* analysis: the engine is constructed again on the same configuration, its
\* arrays are allocated int(NCL / lbin) - 1 wide, and the run's spectra and
\* stds (the rows inputData stored) are assigned to the active bins.  An
\* assignment of a row of another width raises and no engine is returned
init_from_run ==
    /\ cls = "BeamLikelihood"
    /\ neutrino_sample # "none"
    /\ BeamInputDataError(1) = ""
    /\ LET n == IntDiv(NCL, lbin) - 1
           act(e) == (e - 1) \in ActiveBins
           fits(row) == Len(row) = n \/ Len(row) = 1
           assigned(row) == Arr([j \in 1..n |-> IF Len(row) = 1 THEN row[1] ELSE row[j]])
           std == Arr([e \in 1..NEbin |->
                     IF act(e) THEN assigned(w_std[e]) ELSE ZeroStds(n)])
       IN  IF \E e \in 1..NEbin : act(e) /\ ~(fits(w_data[e]) /\ fits(w_std[e]))
           THEN /\ ret' = [Called("init_from_run") EXCEPT !.err = "ValueError"]
                /\ UNCHANGED <<data, boot>>
           ELSE /\ w_data' = Arr([e \in 1..NEbin |->
                                IF act(e) THEN assigned(w_data[e]) ELSE Zeros(n)])
                /\ w_std' = std
                /\ w_cov' = Arr([e \in 1..NEbin |->
                               IF act(e)
                               THEN Arr([i \in 1..n |-> Arr([j \in 1..n |->
                                        IF i = j THEN StdSquare(std[e][i]) ELSE Zero])])
                               ELSE ZeroMatrix(n)])
                /\ w_std_square' = <<>>
                /\ Ncount' = <<>>
                /\ boot' = NoBoot
                /\ ret' = Called("init_from_run")
                /\ UNCHANGED neutrino_sample
    /\ nLikeEvals' = 0
    /\ soln' = NoSoln
    /\ UNCHANGED <<config, templates, chain>>

(***************************************************************************)
(* The likelihood evaluations.  Each is a function of the engine's fields  *)
(* and its arguments that returns Ok(value) or Raise(exception).           *)
(***************************************************************************)
\* row e of a 2-d array indexed by a Python index: the 1-based row, 0 when
\* the index is out of range (IndexError)
PyRow(energyBin, n) ==
    IF energyBin >= 0 /\ energyBin < n THEN energyBin + 1
    ELSE IF energyBin < 0 /\ energyBin >= -n THEN n + energyBin + 1
    ELSE 0

\* template * f + background * (1 - f), element by element
ModelMean(model, atm, f) ==
    Arr([j \in 1..Len(model) |-> RAdd(RMul(model[j], f), RMul(atm[j], RSub(One, f)))])

\* w_cov[ebin, lmin:, lmin:]
CovFrom(C, from) ==
    LET rows == PyFrom(C, from)
    IN  Arr([i \in 1..Len(rows) |-> PyFrom(rows[i], from)])

\* cov * np.identity(n)
TimesIdentity(C) ==
    Arr([i \in 1..Len(C) |-> Arr([j \in 1..Len(C) |-> IF i = j THEN C[i][j] ELSE Zero])])

\* Elimination of r' C^-1 r and det C, one pivot at a time; ok is FALSE when
\* a pivot is not positive (C is not positive definite)
RECURSIVE Eliminate(_, _)
Eliminate(C, r) ==
    IF Len(r) = 0 THEN [ok |-> TRUE, det |-> One, maha |-> Zero]
    ELSE LET p == C[1][1]
             n == Len(r)
         IN  IF ~RLt(Zero, p) THEN [ok |-> FALSE, det |-> Zero, maha |-> Zero]
             ELSE LET C2 == Arr([i \in 1..(n - 1) |->
                               IF C[i + 1][1] = Zero THEN Tail(C[i + 1])
                               ELSE LET c == RDiv(C[i + 1][1], p)
                                    IN  Arr([j \in 1..(n - 1) |->
                                            RSub(C[i + 1][j + 1], RMul(c, C[1][j + 1]))])])
                      r2 == Arr([i \in 1..(n - 1) |->
                               IF C[i + 1][1] = Zero THEN r[i + 1]
                               ELSE RSub(r[i + 1], RMul(RDiv(C[i + 1][1], p), r[1]))])
                      rest == Eliminate(C2, r2)
                  IN  [ok |-> rest.ok, det |-> RMul(p, rest.det),
                       maha |-> RAdd(RDiv(RSq(r[1]), p), rest.maha)]

IsDiagonal(C) == \A i, j \in 1..Len(C) : i # j => C[i][j] = Zero

\* the same for a diagonal C, where the pivots are the diagonal entries
RECURSIVE DiagonalFormFrom(_, _, _)
DiagonalFormFrom(C, r, i) ==
    IF i > Len(r) THEN [ok |-> TRUE, det |-> One, maha |-> Zero]
    ELSE IF ~RLt(Zero, C[i][i]) THEN [ok |-> FALSE, det |-> Zero, maha |-> Zero]
    ELSE LET rest == DiagonalFormFrom(C, r, i + 1)
         IN  [ok |-> rest.ok, det |-> RMul(C[i][i], rest.det),
              maha |-> RAdd(RDiv(RSq(r[i]), C[i][i]), rest.maha)]
DiagonalForm(C, r) == DiagonalFormFrom(C, r, 1)

\* r' C^-1 r and det C of a covariance C and a residual r
QuadraticForm(C, r) == IF IsDiagonal(C) THEN DiagonalForm(C, r) ELSE Eliminate(C, r)

\* the log-density of a k-dimensional normal from its quadratic form g
LogDensity(g, k) ==
    IF g.ok THEN Ok(Val(RNeg(RDiv(g.maha, R(2))), RNeg(Half), k, g.det))
    ELSE Raise("LinAlgError")

\* scipy.stats.multivariate_normal.logpdf(x, mean=mean, cov=cov)
multivariate_normal_logpdf(x, mean, cov) ==
    IF Len(mean) # Len(x) \/ Len(cov) # Len(x) THEN Raise("ValueError")
    ELSE LogDensity(QuadraticForm(cov, Arr([j \in 1..Len(x) |-> RSub(x[j], mean[j])])),
                    Len(x))

\* log_likelihood_Ebin cutting at lmin itself instead of int(lmin / lbin)
Beam_log_likelihood_Ebin_fine_cutoff(f, energyBin) ==
    LET e == PyRow(energyBin, NEbin)
    IN  IF e = 0 THEN Raise("IndexError")
        ELSE IF w_model_f1_ndim # 1 THEN Raise("ValueError")
        ELSE LET data_l == PyFrom(w_data[e], lmin)
                 mean == ModelMean(PyFrom(w_model_f1, lmin), PyFrom(w_atm_mean[e], lmin), f)
                 cov == TimesIdentity(CovFrom(w_cov[e], lmin))
             IN  multivariate_normal_logpdf(data_l, mean, cov)

\* BeamLikelihood.log_likelihood_Ebin(f, energyBin)
Beam_log_likelihood_Ebin(f, energyBin) ==
    LET lm == IntDiv(lmin, lbin)
        e == PyRow(energyBin, NEbin)
    IN  IF e = 0 THEN Raise("IndexError")
        ELSE IF w_model_f1_ndim # 1 THEN Raise("ValueError")
        ELSE LET data_l == PyFrom(w_data[e], lm)
                 mean == ModelMean(PyFrom(w_model_f1, lm), PyFrom(w_atm_mean[e], lm), f)
                 cov == TimesIdentity(CovFrom(w_cov[e], lm))
             IN  multivariate_normal_logpdf(data_l, mean, cov)

\* log_likelihood += term over the iterations of a loop, from its iteration
\* i on: the first exception ends the loop
RECURSIVE SumOfTermsFrom(_, _, _)
SumOfTermsFrom(terms, i, acc) ==
    IF i > Len(terms) THEN Ok(acc)
    ELSE IF terms[i].err # "" THEN terms[i]
    ELSE SumOfTermsFrom(terms, i + 1, VAdd(acc, terms[i].val))

\* the iteration evaluating on the full covariance, off-diagonal terms kept
Beam_log_likelihood_term_full_cov(f, i) ==
    LET lm == IntDiv(lmin, lbin)
        e == PyRow(Ebinmin + i, NEbin)
    IN  IF e = 0 \/ i >= Len(f) THEN Raise("IndexError")
        ELSE IF w_model_f1_ndim # 1 THEN Raise("ValueError")
        ELSE LET data_l == PyFrom(w_data[e], lm)
                 mean == ModelMean(PyFrom(w_model_f1, lm), PyFrom(w_atm_mean[e], lm), f[i + 1])
                 cov == CovFrom(w_cov[e], lm)
             IN  multivariate_normal_logpdf(data_l, mean, cov)

\* iteration i of the loop of BeamLikelihood.log_likelihood
Beam_log_likelihood_term(f, i) ==
    LET lm == IntDiv(lmin, lbin)
        e == PyRow(Ebinmin + i, NEbin)
    IN  IF e = 0 \/ i >= Len(f) THEN Raise("IndexError")
        ELSE IF w_model_f1_ndim # 1 THEN Raise("ValueError")
        ELSE LET data_l == PyFrom(w_data[e], lm)
                 mean == ModelMean(PyFrom(w_model_f1, lm), PyFrom(w_atm_mean[e], lm), f[i + 1])
                 cov == TimesIdentity(CovFrom(w_cov[e], lm))
             IN  multivariate_normal_logpdf(data_l, mean, cov)

\* BeamLikelihood.log_likelihood(f)
Beam_log_likelihood(f) ==
    SumOfTermsFrom(Arr([i \in 1..len_f |-> Beam_log_likelihood_term(f, i - 1)]), 1, RVal(Zero))

\* iteration i of the loop of BeamLikelihood.log_likelihood_cov, with the
\* full covariance
Beam_log_likelihood_cov_term(f, i) ==
    LET lm == IntDiv(lmin, lbin)
        e == PyRow(Ebinmin + i, NEbin)
    IN  IF e = 0 \/ i >= Len(f) THEN Raise("IndexError")
        ELSE IF w_model_f1_ndim # 1 THEN Raise("ValueError")
        ELSE LET data_l == PyFrom(w_data[e], lm)
                 mean == ModelMean(PyFrom(w_model_f1, lm), PyFrom(w_atm_mean[e], lm), f[i + 1])
                 cov == CovFrom(w_cov[e], lm)
             IN  multivariate_normal_logpdf(data_l, mean, cov)

\* BeamLikelihood.log_likelihood_cov(f)
Beam_log_likelihood_cov(f) ==
    SumOfTermsFrom(Arr([i \in 1..len_f |-> Beam_log_likelihood_cov_term(f, i - 1)]), 1,
                   RVal(Zero))

\* Likelihood.log_likelihood_Ebin(f, energyBin)
Likelihood_log_likelihood_Ebin(f, energyBin) ==
    LET e == PyRow(energyBin, NEbin)
    IN  IF e = 0 THEN Raise("IndexError")
        ELSE LET mean == ModelMean(w_model_f1[e], w_atm_mean[e], f)
                 lnL_le == Arr([j \in 1..NCL |->
                              RNeg(RDiv(RDiv(RSq(RSub(w_data[e][j], mean[j])),
                                             w_std_square[e][j]), R(2)))])
             IN  Ok(RVal(RSum(PyFrom(lnL_le, lmin))))

\* Likelihood.log_likelihood(f): the rows Ebinmin:Ebinmax of the arrays are
\* broadcast against f, and the terms with l >= lmin of every row summed
Likelihood_log_likelihood(f) ==
    LET model == PySlice(w_model_f1, Ebinmin, Ebinmax)
        atm == PySlice(w_atm_mean, Ebinmin, Ebinmax)
        std == PySlice(w_std, Ebinmin, Ebinmax)
        obs == PySlice(w_data, Ebinmin, Ebinmax)
        m == Len(model)
        n == Len(f)
    IN  IF ~(n = m \/ n = 1 \/ m = 1) THEN Raise("ValueError")
        ELSE LET rows == IF m = 1 THEN n ELSE m
                 bin(r) == IF m = 1 THEN 1 ELSE r
                 frac(r) == IF n = 1 THEN f[1] ELSE f[r]
                 lnL_le == Arr([r \in 1..rows |->
                              LET mean == ModelMean(model[bin(r)], atm[bin(r)], frac(r))
                              IN  Arr([j \in 1..NCL |->
                                      RNeg(RDiv(RDiv(RSq(RSub(obs[bin(r)][j], mean[j])),
                                                     StdSquare(std[bin(r)][j])), R(2)))])])
             IN  Ok(RVal(RSum(Arr([r \in 1..rows |-> RSum(PyFrom(lnL_le[r], lmin))]))))

\* chi_square_Ebin summing every multipole, those below lmin included
Likelihood_chi_square_Ebin_all_l(f, energyBin) ==
    LET e == PyRow(energyBin, NEbin)
    IN  IF e = 0 THEN Raise("IndexError")
        ELSE LET mean == ModelMean(w_model_f1[e], w_atm_mean[e], f)
                 chisquare == Arr([j \in 1..NCL |->
                                 RDiv(RSq(RSub(w_data[e][j], mean[j])), w_std_square[e][j])])
             IN  Ok(RVal(RSum(chisquare)))

\* Likelihood.chi_square_Ebin(f, energyBin)
Likelihood_chi_square_Ebin(f, energyBin) ==
    LET e == PyRow(energyBin, NEbin)
    IN  IF e = 0 THEN Raise("IndexError")
        ELSE LET mean == ModelMean(w_model_f1[e], w_atm_mean[e], f)
                 chisquare == Arr([j \in 1..NCL |->
                                 RDiv(RSq(RSub(w_data[e][j], mean[j])), w_std_square[e][j])])
             IN  Ok(RVal(RSum(PyFrom(chisquare, lmin))))

\* -2 * lnL of an outcome lnL
MinusTwice(lnL) == IF lnL.err # "" THEN lnL ELSE Ok(VScale(lnL.val, R(-2)))

\* BeamLikelihood.chi_square_Ebin(f, energyBin)
Beam_chi_square_Ebin(f, energyBin) == MinusTwice(Beam_log_likelihood_Ebin(f, energyBin))

\* the methods of the engine's class
log_likelihood_Ebin(f, energyBin) ==
    IF cls = "BeamLikelihood" THEN Beam_log_likelihood_Ebin(f, energyBin)
    ELSE Likelihood_log_likelihood_Ebin(f, energyBin)

log_likelihood(f) ==
    IF cls = "BeamLikelihood" THEN Beam_log_likelihood(f) ELSE Likelihood_log_likelihood(f)

\* Likelihood has no log_likelihood_cov
log_likelihood_cov(f) ==
    IF cls = "BeamLikelihood" THEN Beam_log_likelihood_cov(f) ELSE Raise("AttributeError")

chi_square_Ebin(f, energyBin) ==
    IF cls = "BeamLikelihood" THEN Beam_chi_square_Ebin(f, energyBin)
    ELSE Likelihood_chi_square_Ebin(f, energyBin)

\* log_prior(f): 0 inside the open box (-4, 4), -inf elsewhere
log_prior(f) ==
    IF \A i \in 1..Len(f) : RLt(R(-4), f[i]) /\ RLt(f[i], R(4)) THEN Zero ELSE NegInf

\* lp + lnL of a prior lp and an outcome lnL
PlusPrior(lp, lnL) == IF lnL.err # "" THEN lnL ELSE Ok(VAdd(RVal(lp), lnL.val))

\* log_probability evaluating the likelihood before it looks at the prior
log_probability_eager(f) ==
    [out |-> IF ~IsFinite(log_prior(f)) THEN Ok(RVal(NegInf))
             ELSE PlusPrior(log_prior(f), log_likelihood(f)),
     evals |-> 1]

\* log_probability(f): the outcome, and how many times it evaluated log_likelihood
log_probability(f) ==
    IF ~IsFinite(log_prior(f)) THEN [out |-> Ok(RVal(NegInf)), evals |-> 0]
    ELSE [out |-> PlusPrior(log_prior(f), log_likelihood(f)), evals |-> 1]

(***************************************************************************)
(* The optimizers.  Each returns the pair (x, TS) or raises.               *)
(***************************************************************************)
Const(n, c) == Arr([i \in 1..n |-> c])

\* a[ebin, from:] of an array a with ndim axes and nrows rows
RowFrom(a, ndim, ebin, from) ==
    IF ndim < 2 \/ PyRow(ebin, Len(a)) = 0 THEN [err |-> "IndexError", row |-> <<>>]
    ELSE [err |-> "", row |-> PyFrom(a[PyRow(ebin, Len(a))], from)]

\* np.sum((cgg-cgatm)*(cgnu-cgatm)/cstd**2) / np.sum((cgg-cgatm)**2/cstd**2)
fhat(cgg, cgnu, cgatm, cstd) ==
    LET num == Arr([j \in 1..Len(cgg) |->
                  RDiv(RMul(RSub(cgg[j], cgatm[j]), RSub(cgnu[j], cgatm[j])),
                       StdSquare(cstd[j]))])
        den == Arr([j \in 1..Len(cgg) |->
                  RDiv(RSq(RSub(cgg[j], cgatm[j])), StdSquare(cstd[j]))])
    IN  RDiv(RSum(num), RSum(den))

\* the loop of minimize__lnL_analytic from its iteration i on, f the
\* fractions of the iterations before
RECURSIVE AnalyticFractionsFrom(_, _)
AnalyticFractionsFrom(i, f) ==
    IF i >= len_f THEN [err |-> "", x |-> f]
    ELSE LET ebin == Ebinmin + i
             cgg == RowFrom(w_model_f1, w_model_f1_ndim, ebin, lmin)
             cgnu == RowFrom(w_data, 2, ebin, lmin)
             cgatm == RowFrom(w_atm_mean, 2, ebin, lmin)
             cstd == RowFrom(w_std, 2, ebin, lmin)
         IN  IF cgg.err # "" THEN [err |-> cgg.err, x |-> <<>>]
             ELSE IF cgnu.err # "" \/ cgatm.err # "" \/ cstd.err # ""
             THEN [err |-> "IndexError", x |-> <<>>]
             ELSE IF {Len(cgnu.row), Len(cgatm.row), Len(cstd.row)} # {Len(cgg.row)}
             THEN [err |-> "ValueError", x |-> <<>>]
             ELSE AnalyticFractionsFrom(i + 1,
                      Append(f, fhat(cgg.row, cgnu.row, cgatm.row, cstd.row)))

\* 2 * (lnL(x) - lnL(null)) of two outcomes of a log-likelihood, as returned
\* beside x
TestStatistic(x, best, null) ==
    IF best.err # "" THEN [err |-> best.err, x |-> <<>>, ts |-> Zero]
    ELSE IF null.err # "" THEN [err |-> null.err, x |-> <<>>, ts |-> Zero]
    ELSE [err |-> "", x |-> x, ts |-> VScale(VSub(best.val, null.val), R(2)).q]

\* the return of minimize__lnL_analytic once its loop has ended with fit
AnalyticReturn(fit) ==
    IF fit.err # "" THEN [err |-> fit.err, x |-> <<>>, ts |-> Zero]
    ELSE TestStatistic(fit.x, log_likelihood(fit.x), log_likelihood(Const(len_f, Zero)))

\* minimize__lnL_analytic()
minimize__lnL_analytic == AnalyticReturn(AnalyticFractionsFrom(0, <<>>))

\* the objective of a numeric optimizer is -log_likelihood_cov ("cov") or
\* -log_likelihood
Objective(kind, x) == IF kind = "cov" THEN log_likelihood_cov(x) ELSE log_likelihood(x)

Clip(v, lo, hi) == IF RLt(v, lo) THEN lo ELSE IF RLt(hi, v) THEN hi ELSE v

\* The objectives are concave quadratics with no cross terms, so the
\* maximiser over a box is found coordinate by coordinate from three
\* evaluations on the axis; a coordinate the objective does not depend on
\* stays where the search started
ParabolaOptimum(slope, curv, lo, hi, start) ==
    IF curv = Zero
    THEN (IF slope = Zero THEN Clip(start, lo, hi)
          ELSE IF RLt(Zero, slope) THEN hi ELSE lo)
    ELSE Clip(RNeg(RDiv(slope, RMul(R(2), curv))), lo, hi)

\* from the rises up and down of the objective one step either side of 0
RisesOptimum(up, down, lo, hi, start) ==
    ParabolaOptimum(RDiv(RSub(up, down), R(2)), RDiv(RAdd(up, down), R(2)), lo, hi, start)

\* from the objective's values at[-1], at[0], at[1] on the axis
AxisOptimum(at, lo, hi, start) ==
    RisesOptimum(VSub(at[1], at[0]).q, VSub(at[-1], at[0]).q, lo, hi, start)

CoordinateOptimum(kind, n, i, lo, hi, start) ==
    AxisOptimum([c \in {-1, 0, 1} |-> Objective(kind, [Const(n, Zero) EXCEPT ![i] = R(c)]).val],
                lo, hi, start)

\* scipy.optimize.minimize(nll, initial, bounds=bounds): the OptimizeResults
\* it can end with.  A successful search ends on the maximiser of the
\* objective over the box; an unsuccessful one ends where it stalled, on its
\* projected start or on a corner of the unit box, success False
minimize(kind, initial, bounds) ==
    LET n == Len(initial)
        best == Arr([i \in 1..n |->
                    CoordinateOptimum(kind, n, i, bounds[i][1], bounds[i][2], initial[i])])
        stalled == {Arr([i \in 1..n |->
                        Clip(IF i <= len_f /\ c # "start" THEN (IF c = "zero" THEN Zero ELSE One)
                             ELSE initial[i], bounds[i][1], bounds[i][2])]) :
                    c \in {"start", "zero", "one"}}
    IN  {[x |-> best, success |-> TRUE]} \cup {[x |-> s, success |-> FALSE] : s \in stalled}

\* the exception the first evaluation of the objective raises, "" if none
ObjectiveError(kind, n) == Objective(kind, Const(n, Zero)).err

\* the mean of the random start 0.1 + 0.1 * randn and the bounds [(0, 1)] * len_f
UnitStart == Const(len_f, <<1, 10>>)
UnitBounds == Const(len_f, <<Zero, One>>)

\* minimize__lnL(), given the OptimizeResult soln of its search
minimize__lnL(s) ==
    TestStatistic(s.x, log_likelihood(s.x), log_likelihood(Const(len_f, Zero)))

\* minimize__lnL_cov(), given the OptimizeResult of its search
minimize__lnL_cov(s) ==
    TestStatistic(s.x, log_likelihood_cov(s.x), log_likelihood_cov(Const(len_f, Zero)))

\* Defaults.GAMMAS = np.arange(1.5, 4.1, .5): its min and max
GAMMAS_min == <<3, 2>>
GAMMAS_max == <<4, 1>>

\* the start 0.5 + 0.1 * randn with the index 2.5 appended, and the bounds
\* len_f * [[-4, 4]] + [[GAMMAS.min(), GAMMAS.max()]]
FreeIndexStart == Append(Const(len_f, Half), <<5, 2>>)
FreeIndexBounds == Append(Const(len_f, <<R(-4), R(4)>>), <<GAMMAS_min, GAMMAS_max>>)

\* minimize__lnL_free_index(), given the OptimizeResult of its search
minimize__lnL_free_index(s) ==
    TestStatistic(s.x, log_likelihood(s.x),
                  log_likelihood(Append(Const(len_f, Zero), <<5, 2>>)))

(***************************************************************************)
(* The calls a driver makes on an engine that has ingested a sample.       *)
(***************************************************************************)
Ingested == neutrino_sample # "none"

\* the fractions and fraction vectors the calls are made with: inside the
\* prior box and on its edges -4 and 4, two of the vectors with unequal
\* components
FGrid == {Zero, Half, R(4)}
FVectors ==
    {Const(len_f, Half), Const(len_f, R(4)),
     Arr([i \in 1..len_f |-> IF i % 2 = 1 THEN Zero ELSE One]),
     Arr([i \in 1..len_f |-> IF i % 2 = 1 THEN Half ELSE R(-4)])}

\* the energy bin arguments: the ends of the active range, and one past the
\* last row
EbinArgs == {Ebinmin, Ebinmax - 1, NEbin}

Returned(op, f, ebin, out) ==
    [Called(op) EXCEPT !.f = f, !.ebin = ebin, !.err = out.err, !.val = out.val]

Fitted(op, r) == [Called(op) EXCEPT !.err = r.err, !.x = r.x, !.val = RVal(r.ts)]

Call_log_likelihood ==
    /\ Ingested
    /\ \E f \in FVectors : ret' = Returned("log_likelihood", f, 0, log_likelihood(f))
    /\ nLikeEvals' = 1
    /\ soln' = NoSoln
    /\ UNCHANGED <<engine, boot, chain>>

Call_log_likelihood_Ebin ==
    /\ Ingested
    /\ \E f \in FGrid, energyBin \in EbinArgs :
          ret' = Returned("log_likelihood_Ebin", <<f>>, energyBin,
                          log_likelihood_Ebin(f, energyBin))
    /\ nLikeEvals' = 0
    /\ soln' = NoSoln
    /\ UNCHANGED <<engine, boot, chain>>

Call_log_likelihood_cov ==
    /\ Ingested
    /\ \E f \in FVectors : ret' = Returned("log_likelihood_cov", f, 0, log_likelihood_cov(f))
    /\ nLikeEvals' = 0
    /\ soln' = NoSoln
    /\ UNCHANGED <<engine, boot, chain>>

\* chi_square_Ebin dividing the stored variances by the event counts in place
Call_chi_square_Ebin_in_place ==
    /\ Ingested
    /\ \E f \in FGrid, energyBin \in EbinArgs :
          ret' = Returned("chi_square_Ebin", <<f>>, energyBin, chi_square_Ebin(f, energyBin))
    /\ w_std_square' =
          Arr([e \in 1..Len(w_std_square) |-> Arr([j \in 1..Len(w_std_square[e]) |->
              RDiv(w_std_square[e][j], R(Ncount[e]))])])
    /\ nLikeEvals' = 0
    /\ soln' = NoSoln
    /\ UNCHANGED <<config, templates, neutrino_sample, w_data, w_cov, w_std, Ncount, boot, chain>>

Call_chi_square_Ebin ==
    /\ Ingested
    /\ \E f \in FGrid, energyBin \in EbinArgs :
          ret' = Returned("chi_square_Ebin", <<f>>, energyBin, chi_square_Ebin(f, energyBin))
    /\ nLikeEvals' = 0
    /\ soln' = NoSoln
    /\ UNCHANGED <<engine, boot, chain>>

Call_log_prior ==
    /\ Ingested
    /\ \E f \in FVectors \cup {Const(len_f, R(2)), Const(len_f, R(-1))} :
          ret' = Returned("log_prior", f, 0, Ok(RVal(log_prior(f))))
    /\ nLikeEvals' = 0
    /\ soln' = NoSoln
    /\ UNCHANGED <<engine, boot, chain>>

Call_log_probability ==
    /\ Ingested
    /\ \E f \in FVectors : \E p \in {log_probability(f)} :
          /\ ret' = Returned("log_probability", f, 0, p.out)
          /\ nLikeEvals' = p.evals
    /\ soln' = NoSoln
    /\ UNCHANGED <<engine, boot, chain>>

Call_minimize__lnL_analytic ==
    /\ Ingested
    /\ ret' = Fitted("minimize__lnL_analytic", minimize__lnL_analytic)
    /\ nLikeEvals' = 0
    /\ soln' = NoSoln
    /\ UNCHANGED <<engine, boot, chain>>

Call_minimize__lnL ==
    /\ Ingested
    /\ \E raised \in {ObjectiveError("diag", len_f)} :
          IF raised # ""
          THEN /\ soln' = NoSoln
               /\ ret' = [Called("minimize__lnL") EXCEPT !.err = raised]
          ELSE \E s \in minimize("diag", UnitStart, UnitBounds) :
                  /\ soln' = s
                  /\ ret' = Fitted("minimize__lnL", minimize__lnL(s))
    /\ nLikeEvals' = 0
    /\ UNCHANGED <<engine, boot, chain>>

Call_minimize__lnL_cov ==
    /\ Ingested
    /\ \E raised \in {ObjectiveError("cov", len_f)} :
          IF raised # ""
          THEN /\ soln' = NoSoln
               /\ ret' = [Called("minimize__lnL_cov") EXCEPT !.err = raised]
          ELSE \E s \in minimize("cov", UnitStart, UnitBounds) :
                  /\ soln' = s
                  /\ ret' = Fitted("minimize__lnL_cov", minimize__lnL_cov(s))
    /\ nLikeEvals' = 0
    /\ UNCHANGED <<engine, boot, chain>>

Call_minimize__lnL_free_index ==
    /\ Ingested
    /\ \E raised \in {ObjectiveError("diag", len_f + 1)} :
          IF raised # ""
          THEN /\ soln' = NoSoln
               /\ ret' = [Called("minimize__lnL_free_index") EXCEPT !.err = raised]
          ELSE \E s \in minimize("diag", FreeIndexStart, FreeIndexBounds) :
                  /\ soln' = s
                  /\ ret' = Fitted("minimize__lnL_free_index", minimize__lnL_free_index(s))
    /\ nLikeEvals' = 0
    /\ UNCHANGED <<engine, boot, chain>>

\* calculate_w_mean merging the masks again without the galaxy mask
calculate_w_mean_remask ==
    /\ w_atm_mean # <<>>
    /\ idx_mask' = {p \in idx_mask : p >= (NPIXEL \div 2) + 2 * NSIDE}
    /\ f_sky' = RSub(One, RDiv(R(Cardinality(idx_mask')), R(NPIXEL)))
    /\ w_model_f1' = Arr([i \in 1..NEbin |-> SigFine(tmpl)])
    /\ w_model_f1_ndim' = 2
    /\ ret' = Called("calculate_w_mean")
    /\ nLikeEvals' = 0
    /\ soln' = NoSoln
    /\ UNCHANGED <<cls, tmpl, Ebinmin, Ebinmax, lmin, lbin, err_type,
                   w_atm_mean, w_atm_std, w_atm_std_square, data, boot, chain>>

\* calculate_w_mean(): the spectrum hp.anafast gives for the galaxy
\* overdensity map with the masked pixels unseen (the full-sky spectrum
\* scaled by the unmasked fraction) is divided by f_sky and copied to each of
\* the NEbin rows of a new w_model_f1.  The division is numpy's: no exception
calculate_w_mean ==
    /\ w_atm_mean # <<>>
    /\ LET anafast == Arr([l \in 1..NCL |-> RMul(SigFine(tmpl)[l], f_sky)])
           w_mean == Arr([l \in 1..NCL |-> RDiv(anafast[l], f_sky)])
       IN  w_model_f1' = Arr([i \in 1..NEbin |-> w_mean])
    /\ w_model_f1_ndim' = 2
    /\ ret' = Called("calculate_w_mean")
    /\ nLikeEvals' = 0
    /\ soln' = NoSoln
    /\ UNCHANGED <<config, w_atm_mean, w_atm_std, w_atm_std_square, data, boot, chain>>

(***************************************************************************)
(* significance(chi_square, dof), the module's function, for dof = 1 and   *)
(* chi_square the square of an integer z, where the two-tailed normal      *)
(* significance of the chi-square survival probability is z itself.        *)
(***************************************************************************)
\* p_value = chi2.sf(chi_square, dof) is a double: it is exactly 0.0 once
\* exp(-chi_square / 2) is below the smallest positive double, from
\* chi_square / 2 > 745 on, and norm.isf(0.0) is inf
significance(chi_square, dof) ==
    LET z == CHOOSE n \in 0..chi_square : n * n = chi_square
        p_value_is_zero == chi_square > 2 * 745
    IN  IF p_value_is_zero THEN Inf ELSE R(z)

\* the chi-squares the function is called with are the squares of 0 to 3
\* sigma and of 30, 40 and 50 sigma
Call_significance ==
    /\ \E z \in {0, 1, 2, 3, 30, 40, 50} :
          ret' = Returned("significance", <<R(z * z)>>, 0, Ok(RVal(significance(z * z, 1))))
    /\ nLikeEvals' = 0
    /\ soln' = NoSoln
    /\ UNCHANGED <<engine, boot, chain>>

(***************************************************************************)
(* TS_distribution(N_re, f_diff): the call, two actions per pass of its    *)
(* loop, and its return.  ret holds the call's frame while it runs: the    *)
(* position in the loop, N_re and the entries of TS_array written so far.  *)
(***************************************************************************)
Call_TS_distribution ==
    /\ w_atm_mean # <<>>
    /\ ret.op \notin {"TS_distribution.loop", "TS_distribution.fit"}
    /\ \E N_re \in 0..MaxN_re : ret' = [Called("TS_distribution.loop") EXCEPT !.N_re = N_re]
    /\ nLikeEvals' = 0
    /\ soln' = NoSoln
    /\ UNCHANGED <<engine, boot, chain>>

\* the loop returning one pass early
TS_return_early ==
    /\ ret.op = "TS_distribution.loop"
    /\ Len(ret.TS_array) + 1 >= ret.N_re
    /\ ret' = [ret EXCEPT !.op = "TS_distribution"]
    /\ UNCHANGED <<engine, boot, chain, nLikeEvals, soln>>

\* the loop has made its N_re passes: TS_array is returned
TS_return ==
    /\ ret.op = "TS_distribution.loop"
    /\ Len(ret.TS_array) = ret.N_re
    /\ ret' = [ret EXCEPT !.op = "TS_distribution"]
    /\ UNCHANGED <<engine, boot, chain, nLikeEvals, soln>>

\* a pass of the loop, first half: a synthetic sample is made and ingested
\* by inputData with its default arguments.  An exception ends the call
TS_ingest ==
    /\ ret.op = "TS_distribution.loop"
    /\ Len(ret.TS_array) < ret.N_re
    /\ \E s \in SampleKinds :
          IF cls = "BeamLikelihood"
          THEN \E draws \in [ActiveBins -> Draws] : BeamInputData(s, draws, 1)
          ELSE LikelihoodInputData(s)
    /\ ret' = IF cls = "BeamLikelihood" /\ BeamInputDataError(1) # ""
              THEN [ret EXCEPT !.op = "TS_distribution", !.err = BeamInputDataError(1)]
              ELSE [ret EXCEPT !.op = "TS_distribution.fit"]
    /\ nLikeEvals' = 0
    /\ soln' = NoSoln
    /\ UNCHANGED <<config, templates, chain>>

\* second half: minimize__lnL fits the data now stored and its TS is written
\* to the next entry of TS_array
TS_fit ==
    /\ ret.op = "TS_distribution.fit"
    /\ \E raised \in {ObjectiveError("diag", len_f)} :
          IF raised # ""
          THEN /\ soln' = NoSoln
               /\ ret' = [ret EXCEPT !.op = "TS_distribution", !.err = raised]
          ELSE \E fit \in minimize("diag", UnitStart, UnitBounds) :
                  /\ soln' = fit
                  /\ ret' = [ret EXCEPT !.op = "TS_distribution.loop",
                                        !.TS_array = Append(@, minimize__lnL(fit).ts)]
    /\ nLikeEvals' = 0
    /\ UNCHANGED <<engine, boot, chain>>

(***************************************************************************)
(* runMCMC(Nwalker, Nstep): the chain store of the engine's galaxy sample  *)
(* and N_yr is opened and reset, then the sampler writes one entry per     *)
(* step.                                                                   *)
(***************************************************************************)
\* the positions a stored step can hold, all inside the prior box
WalkerPositions == {Const(len_f, Zero), Const(len_f, Half)}

runMCMC ==
    /\ Ingested
    /\ \E Nstep \in 1..MaxNstep, first \in {log_probability(Const(len_f, <<3, 10>>)).out} :
          IF first.err # ""
          THEN /\ chain' = <<>>
               /\ ret' = [Called("runMCMC") EXCEPT !.err = first.err]
          ELSE /\ \E steps \in [1..Nstep -> WalkerPositions] : chain' = <<>> \o Arr(steps)
               /\ ret' = Called("runMCMC")
    /\ nLikeEvals' = 0
    /\ soln' = NoSoln
    /\ UNCHANGED <<engine, boot>>

NextEval ==
    \/ inputData
    \/ Call_log_likelihood
    \/ Call_log_likelihood_Ebin
    \/ Call_log_likelihood_cov
    \/ Call_chi_square_Ebin
    \/ Call_log_prior
    \/ Call_log_probability

NextFit ==
    \/ inputData
    \/ Call_minimize__lnL_analytic
    \/ Call_minimize__lnL
    \/ Call_minimize__lnL_cov
    \/ Call_minimize__lnL_free_index

NextMCMC ==
    \/ inputData
    \/ runMCMC

NextSetup ==
    \/ inputData
    \/ init_from_run
    \/ Call_log_likelihood
    \/ Call_significance
    \/ calculate_w_mean

NextTS ==
    \/ Call_TS_distribution
    \/ TS_ingest
    \/ TS_fit
    \/ TS_return

Next == NextEval \/ NextFit \/ NextMCMC \/ NextSetup \/ NextTS

\* an engine driven through its evaluations, through its optimizers, through
\* its sampler, and through all of them; and an engine constructed on an
\* edge of its configuration
SpecEval == Init /\ [][NextEval]_vars
SpecFit == Init /\ [][NextFit]_vars
SpecMCMC == Init /\ [][NextMCMC]_vars
Spec == Init /\ [][Next]_vars
SpecSetup == InitSetup /\ [][NextSetup]_vars
SpecTS == Init /\ [][NextTS]_vars

(***************************************************************************)
(* Properties of the evaluations (SpecEval).                               *)
(***************************************************************************)
\* C1: after inputData, for every fraction vector f of length
\* Ebinmax - Ebinmin, log_likelihood(f) returns the sum over the active bins
\* i of log_likelihood_Ebin(f[i], Ebinmin + i), in both classes.
C1_LogLikelihoodIsSumOfBins ==
    (ret.op = "log_likelihood" /\ Len(ret.f) = len_f) =>
        LET bin(i) == log_likelihood_Ebin(ret.f[i + 1], Ebinmin + i)
            RECURSIVE SumFrom(_)
            SumFrom(i) == IF i >= len_f THEN RVal(Zero)
                          ELSE VAdd(bin(i).val, SumFrom(i + 1))
        IN  /\ ret.err = ""
            /\ \A i \in 0..(len_f - 1) : bin(i).err = ""
            /\ ret.val = SumFrom(0)

\* log_likelihood has returned for a vector with two unequal fractions, on a
\* BeamLikelihood engine with two active bins and two multipoles per bin
C1_Witness ==
    /\ ret.op = "log_likelihood"
    /\ ret.err = ""
    /\ cls = "BeamLikelihood"
    /\ lbin = 2
    /\ len_f = 2
    /\ ret.f[1] # ret.f[2]
    /\ ~IsNumber(ret.val)

EvalOps == {"log_likelihood", "log_likelihood_Ebin", "log_likelihood_cov",
            "chi_square_Ebin", "log_prior", "log_probability"}

\* C6: a call of log_likelihood, log_likelihood_Ebin, log_likelihood_cov,
\* chi_square_Ebin, log_prior or log_probability leaves every field of the
\* engine unchanged, and what it returns is determined by the engine's fields
\* and its argument: the same call on the same fields returns the same value.
C6_EvaluationsArePure ==
    [][ret'.op \in EvalOps =>
          /\ engine' = engine
          /\ LET f == ret'.f
                 out == CASE ret'.op = "log_likelihood" -> log_likelihood(f)
                          [] ret'.op = "log_likelihood_Ebin" ->
                                log_likelihood_Ebin(f[1], ret'.ebin)
                          [] ret'.op = "log_likelihood_cov" -> log_likelihood_cov(f)
                          [] ret'.op = "chi_square_Ebin" -> chi_square_Ebin(f[1], ret'.ebin)
                          [] ret'.op = "log_prior" -> Ok(RVal(log_prior(f)))
                          [] OTHER -> log_probability(f).out
             IN  ret'.err = out.err /\ ret'.val = out.val]_vars

\* chi_square_Ebin has returned a value on an engine that holds a spectrum,
\* a covariance and a bootstrapped std
C6_Witness ==
    /\ ret.op = "chi_square_Ebin"
    /\ ret.err = ""
    /\ err_type = "bootstrap"
    /\ w_data # <<>>
    /\ w_cov # <<>>
    /\ w_std # <<>>

\* C7: in error mode 'bootstrap', the covariance log_likelihood and
\* log_likelihood_cov are evaluated with after inputData is the one
\* bootstrapSigma produced for the ingested sample (its covariance, or at
\* least its variances on the diagonal), not the estimator's analytic one.
C7_BootstrapCovarianceUsed ==
    (err_type = "bootstrap" /\ ret.op \in {"log_likelihood", "log_likelihood_cov"}) =>
        \A e \in ActiveBins :
            LET used == w_cov[e + 1]
                std == BootStdTable[neutrino_sample, tmpl, e, lbin, boot[e + 1]]
                cov == BootCovTable[neutrino_sample, tmpl, e, lbin, boot[e + 1]]
            IN  /\ used = cov \/ Diag(used) = Arr([j \in 1..Len(std) |-> StdSquare(std[j])])
                /\ used # SubsampledCovTable[neutrino_sample, tmpl, e, lbin]

\* C9: log_probability(f) returns -inf without evaluating log_likelihood when
\* log_prior(f) is -inf, and log_prior(f) + log_likelihood(f), evaluated
\* once, otherwise.
C9_PriorShortCircuits ==
    ret.op = "log_probability" =>
        IF log_prior(ret.f) = NegInf
        THEN ret.err = "" /\ ret.val = RVal(NegInf) /\ nLikeEvals = 0
        ELSE LET lnL == log_likelihood(ret.f)
             IN  /\ nLikeEvals = 1
                 /\ ret.err = lnL.err
                 /\ lnL.err = "" => ret.val = VAdd(RVal(log_prior(ret.f)), lnL.val)

\* log_probability has returned -inf for a vector on the edge of the box
C9_Witness ==
    /\ ret.op = "log_probability"
    /\ \E i \in 1..Len(ret.f) : ret.f[i] = R(4)
    /\ ret.val = RVal(NegInf)
    /\ nLikeEvals = 0

(***************************************************************************)
(* Properties of the optimizers (SpecFit).                                 *)
(***************************************************************************)
FitOps == {"minimize__lnL_analytic", "minimize__lnL", "minimize__lnL_cov",
           "minimize__lnL_free_index"}
NumericOps == FitOps \ {"minimize__lnL_analytic"}

\* C2: the test statistic an optimizer returns is never below -1e-9.
C2_TestStatisticNotNegative ==
    (ret.op \in FitOps /\ ret.err = "") =>
        LET ts == ret.val.q
        IN  /\ ~IsNaN(ts)
            /\ \/ ts[1] >= 0
               \/ (-ts[1] <= 2 /\ (-ts[1]) * 1000000000 <= ts[2])

\* C3: minimize__lnL_analytic returns, for each active energy bin, the
\* fraction that maximises that bin's log_likelihood_Ebin: no other fraction
\* has a higher log-likelihood, and the fractions half a unit to either side
\* have a lower one.
C3_AnalyticFractionMaximisesBin ==
    ret.op = "minimize__lnL_analytic" =>
        /\ ret.err = ""
        /\ Len(ret.x) = len_f
        /\ \A i \in 1..len_f :
              LET ebin == Ebinmin + i - 1
                  best == log_likelihood_Ebin(ret.x[i], ebin)
                  gain(f) == VSub(best.val, log_likelihood_Ebin(f, ebin).val).q
              IN  /\ best.err = ""
                  /\ \A f \in FGrid : RLe(Zero, gain(f))
                  /\ RLt(Zero, gain(RAdd(ret.x[i], Half)))
                  /\ RLt(Zero, gain(RSub(ret.x[i], Half)))

\* C4: the fractions of a converged minimize__lnL and the fractions
\* minimize__lnL_analytic returns on the same engine agree within 1e-3 in
\* every component.
C4_AnalyticAgreesWithNumeric ==
    (ret.op = "minimize__lnL" /\ ret.err = "" /\ soln.success) =>
        LET closed == minimize__lnL_analytic
        IN  /\ closed.err = ""
            /\ \A i \in 1..len_f :
                  LET d == RSub(closed.x[i], ret.x[i])
                  IN  RLe(d, <<1, 1000>>) /\ RLe(RNeg(d), <<1, 1000>>)

\* the number of multipole bins a fit sums over
FittedMultipoles ==
    IF cls = "BeamLikelihood" THEN Len(w_model_f1) - IntDiv(lmin, lbin) ELSE NCL - lmin

\* C5: with one energy bin, background mean 0 with std 1 and signal 5 over 10
\* multipole bins, the closed-form fit and a converged numeric fit return
\* fraction 0 and TS 0 when the data are the background template, and
\* fraction 1 and TS above 4 when they are the signal template.
C5_EndToEndFit ==
    (/\ ret.op \in {"minimize__lnL_analytic", "minimize__lnL"}
     /\ ret.op = "minimize__lnL" => soln.success
     /\ len_f = 1 /\ tmpl = "flat" /\ FittedMultipoles = 10
     /\ neutrino_sample \in {"bkg", "sig"}) =>
        /\ ret.err = ""
        /\ neutrino_sample = "bkg" => ret.x = <<Zero>> /\ ret.val = RVal(Zero)
        /\ neutrino_sample = "sig" => ret.x = <<One>> /\ RLt(R(4), ret.val.q)

\* C8: what a numeric optimizer returns tells a failed search from a
\* converged one: no two outcomes of the search, one converged and one not,
\* make the optimizer return the same thing.
C8_ReturnTellsConvergence ==
    (ret.op \in NumericOps /\ ret.err = "") =>
        LET kind == IF ret.op = "minimize__lnL_cov" THEN "cov" ELSE "diag"
            free == ret.op = "minimize__lnL_free_index"
            solns == minimize(kind, IF free THEN FreeIndexStart ELSE UnitStart,
                              IF free THEN FreeIndexBounds ELSE UnitBounds)
            returned(s) == CASE ret.op = "minimize__lnL" -> minimize__lnL(s)
                             [] ret.op = "minimize__lnL_cov" -> minimize__lnL_cov(s)
                             [] OTHER -> minimize__lnL_free_index(s)
        IN  \A s1, s2 \in solns : returned(s1) = returned(s2) => s1.success = s2.success

(***************************************************************************)
(* Properties of the sampler (SpecMCMC).                                   *)
(***************************************************************************)
\* C10: the chain store is append-only over runMCMC calls: every sample an
\* earlier run wrote is still there, in the same position, after a later run.
C10_ChainAppendOnly ==
    [][/\ Len(chain') >= Len(chain)
       /\ SubSeq(chain', 1, Len(chain)) = chain]_vars

(***************************************************************************)
(* Properties of bootstrapSigma, as inputData calls it (SpecEval).         *)
(***************************************************************************)
\* C11: bootstrapSigma with mp_cpus > 1 completes and aggregates niter draws
\* of bootstrap_worker, as the single-worker path does: after an inputData
\* in 'bootstrap' mode with mp_cpus > 1 no exception was raised and the std
\* of every active bin is the std of niter draws.
C11_PoolMatchesSingleWorker ==
    (ret.op = "inputData" /\ err_type = "bootstrap" /\ ret.mp_cpus > 1 /\ ActiveBins # {}) =>
        /\ ret.err = ""
        /\ \A e \in ActiveBins :
              /\ Len(boot[e + 1]) = BootIter
              /\ w_std[e + 1] = BootStdTable[neutrino_sample, tmpl, e, lbin, boot[e + 1]]

(***************************************************************************)
(* Properties of the configuration (SpecSetup).                            *)
(***************************************************************************)
\* C12: on an engine whose err_type is neither 'bootstrap' nor 'polspice',
\* every inputData ends in an error, whatever the energy-bin range.
C12_UnknownErrTypeRejected ==
    (ret.op = "inputData" /\ cls = "BeamLikelihood"
     /\ err_type \notin {"bootstrap", "polspice"}) => ret.err # ""

\* the bin ranges inside the energy binning
RangeInBinning == 0 <= Ebinmin /\ Ebinmin <= Ebinmax /\ Ebinmax <= NEbin

\* C13: an energy-bin range outside the binning is rejected at construction
\* or at the first inputData: no inputData on such an engine returns without
\* an error.
C13_BinRangeRejected ==
    (ret.op = "inputData" /\ ~RangeInBinning) => ret.err # ""

\* C14: no multipole below lmin contributes to an evaluation: every coarse
\* bin an evaluation has read covers multipoles l >= lmin only.  The bins
\* read are the indices left by [lmin:] with lmin = int(self.lmin / self.lbin)
\* (lbin = 1 in Likelihood); coarse bin c of a spectrum rebinned by bin_llcl
\* averages the multipoles c * lbin .. (c + 1) * lbin - 1.
C14_NoMultipoleBelowCutoff ==
    LET MultipolesOf(c) == (c * lbin)..((c + 1) * lbin - 1)
        CoarseBinsRead ==
            IF cls = "BeamLikelihood"
            THEN PyFrom(Arr([c \in 1..IntDiv(MAX_L, lbin) |-> c - 1]), IntDiv(lmin, lbin))
            ELSE PyFrom(Arr([c \in 1..NCL |-> c - 1]), lmin)
    IN  (ret.op \in {"log_likelihood", "log_likelihood_Ebin", "log_likelihood_cov"}
         /\ ret.err = "") =>
            \A i \in 1..Len(CoarseBinsRead) :
                \A l \in MultipolesOf(CoarseBinsRead[i]) : l >= lmin

\* C15: the arrays allocated by inputData and by init_from_run, the
\* subsampled covariance and std, and the template means all have the same
\* number of coarse bins, and init_from_run returns its engine.
C15_CoarseBinCountsAgree ==
    (cls = "BeamLikelihood" /\ w_data # <<>>) =>
        /\ ret.op = "init_from_run" => ret.err = ""
        /\ \A e \in 1..NEbin :
              /\ Len(w_data[e]) = Len(w_model_f1)
              /\ Len(w_data[e]) = Len(w_atm_mean[e])
              /\ Len(w_data[e]) = Len(w_atm_std[e])
              /\ Len(w_cov[e]) = Len(w_data[e])
              /\ w_std # <<>> => Len(w_std[e]) = Len(w_data[e])

\* C16: the covariance inputData stores for an active energy bin is the
\* block average of the sample's fine covariance: entry (a, b) is the mean
\* of the fine entries over the lbin x lbin block of coarse bins a and b.
C16_CovarianceBlockAveraged ==
    LET BlockAverage(cov, a, b) ==
            RDiv(RSum(Arr([k \in 1..(lbin * lbin) |->
                          cov[(a - 1) * lbin + IntDiv(k - 1, lbin) + 1]
                             [(b - 1) * lbin + ((k - 1) % lbin) + 1]])),
                 R(lbin * lbin))
    IN  (cls = "BeamLikelihood" /\ ret.op = "inputData" /\ ret.err = "") =>
            \A e \in ActiveBins :
                \A a, b \in 1..Len(w_cov[e + 1]) :
                    w_cov[e + 1][a][b] =
                        BlockAverage(SampleCov(neutrino_sample, tmpl, e), a, b)

\* C17: log_likelihood and log_likelihood_Ebin are diagonal-only: what they
\* return is the value computed from the diagonal of the stored covariance
\* alone, and when the stored covariance of every active bin is diagonal
\* log_likelihood(f) returns what log_likelihood_cov(f) returns.
C17_DiagonalOnlyMode ==
    LET lm == IntDiv(lmin, lbin)
        FromDiagonal(d) ==
            Arr([i \in 1..Len(d) |-> Arr([j \in 1..Len(d) |-> IF i = j THEN d[i] ELSE Zero])])
        OnDiagonal(f, energyBin) ==
            LET e == PyRow(energyBin, NEbin)
            IN  IF e = 0 THEN Raise("IndexError")
                ELSE multivariate_normal_logpdf(
                         PyFrom(w_data[e], lm),
                         ModelMean(PyFrom(w_model_f1, lm), PyFrom(w_atm_mean[e], lm), f),
                         FromDiagonal(PyFrom(Diag(w_cov[e]), lm)))
        out == [err |-> ret.err, val |-> ret.val]
    IN  cls = "BeamLikelihood" =>
            /\ ret.op = "log_likelihood_Ebin" => out = OnDiagonal(ret.f[1], ret.ebin)
            /\ (ret.op = "log_likelihood" /\ Len(ret.f) = len_f) =>
                  /\ out = SumOfTermsFrom(
                               Arr([i \in 1..len_f |-> OnDiagonal(ret.f[i], Ebinmin + i - 1)]),
                               1, RVal(Zero))
                  /\ (\A e \in ActiveBins : PyRow(e, NEbin) # 0
                                                => IsDiagonal(w_cov[PyRow(e, NEbin)]))
                        => out = Beam_log_likelihood_cov(ret.f)

\* log_likelihood has returned on an engine whose stored covariance has
\* off-diagonal entries, with the value the full covariance does not give
C17_Witness ==
    /\ ret.op = "log_likelihood"
    /\ ret.err = ""
    /\ cls = "BeamLikelihood"
    /\ len_f >= 1
    /\ ~IsDiagonal(w_cov[Ebinmin + 1])
    /\ Beam_log_likelihood_cov(ret.f).err = ""
    /\ ret.val # Beam_log_likelihood_cov(ret.f).val

\* C19: chi_square_Ebin(f, bin) returns -2 * log_likelihood_Ebin(f, bin),
\* for every fraction and every energy bin, in both classes.
C19_ChiSquareIsMinusTwiceLogLikelihood ==
    ret.op = "chi_square_Ebin" =>
        LET lnL == log_likelihood_Ebin(ret.f[1], ret.ebin)
        IN  /\ ret.err = lnL.err
            /\ ret.err = "" => ret.val = VScale(lnL.val, R(-2))

\* chi_square_Ebin has returned a non-zero value on a Likelihood engine that
\* cuts multipoles
C19_Witness ==
    /\ ret.op = "chi_square_Ebin"
    /\ ret.err = ""
    /\ cls = "Likelihood"
    /\ lmin >= 1
    /\ IsFinite(ret.val.q)
    /\ ret.val.q # Zero

\* C18: in the free-index fit the last parameter is the spectral index and
\* is never read as a fraction: the fit returns, and its test statistic is
\* twice the gain in log-likelihood of the fitted fractions alone, one
\* log_likelihood_Ebin term per active energy bin, over all fractions zero.
C18_IndexIsNoFraction ==
    LET lnL(f) ==
            SumOfTermsFrom(
                Arr([i \in 1..len_f |-> log_likelihood_Ebin(f[i], Ebinmin + i - 1)]),
                1, RVal(Zero))
    IN  ret.op = "minimize__lnL_free_index" =>
            /\ ret.err = ""
            /\ Len(ret.x) = len_f + 1
            /\ LET expected == TestStatistic(ret.x, lnL(SubSeq(ret.x, 1, len_f)),
                                             lnL(Const(len_f, Zero)))
               IN  expected.err = "" /\ ret.val = RVal(expected.ts)

\* C20: significance(chi_square, dof) returns a finite value, never NaN or
\* an infinity, however large chi_square is.
C20_SignificanceIsFinite ==
    ret.op = "significance" => IsFinite(ret.val.q)

\* C27: log_prior is a flat prior between 0 and 1.5: it returns 0 when every
\* component of f lies between 0 and 1.5 and minus infinity otherwise.
C27_FlatPriorOnUnitRange ==
    ret.op = "log_prior" =>
        ret.val.q = IF \A i \in 1..Len(ret.f) :
                          RLe(Zero, ret.f[i]) /\ RLe(ret.f[i], <<3, 2>>)
                     THEN Zero ELSE NegInf

\* C28: in 'polspice' error mode, after inputData, the variance
\* w_std_square[ebin][k] the closed-form optimizer divides by is the
\* covariance diagonal w_cov[ebin][k][k] log_likelihood evaluates on, for
\* every active energy bin and every coarse bin k.
C28_VarianceIsCovarianceDiagonal ==
    (cls = "BeamLikelihood" /\ err_type = "polspice"
     /\ ret.op = "inputData" /\ ret.err = "") =>
        \A e \in ActiveBins :
            \A k \in 1..Len(w_cov[e + 1]) :
                w_std_square[e + 1][k] = w_cov[e + 1][k][k]

\* C29: an engine rebuilt by init_from_run from the spectrum and std an
\* engine held after inputData holds, for every active energy bin, the
\* observed spectrum and the covariance diagonal inputData had stored for the
\* sample, which are what log_likelihood evaluates on.
C29_RunRoundTrip ==
    (ret.op = "init_from_run" /\ ret.err = "") =>
        \A e \in ActiveBins :
            /\ w_data[e + 1] = BinnedClTable[neutrino_sample, tmpl, e, lbin]
            /\ Diag(w_cov[e + 1]) = Diag(SubsampledCovTable[neutrino_sample, tmpl, e, lbin])

\* C21: after an inputData that returned normally, the observed spectrum,
\* the covariance, the std and variance, the event counts and the stored
\* sample are those of the sample just ingested (and of the bootstrap draws
\* just made), whatever the engine held before the call.
C21_OnlyLastIngestionStored ==
    (ret.op = "inputData" /\ ret.err = "") =>
        /\ neutrino_sample \in SampleKinds
        /\ Ncount = SampleCounts(neutrino_sample)
        /\ w_std_square = Squares(w_std)
        /\ \A e \in 0..(NEbin - 1) :
              IF cls = "Likelihood"
              THEN /\ w_data[e + 1] = SampleCl(neutrino_sample, tmpl, e)
                   /\ w_std[e + 1] = w_atm_std[e + 1]
              ELSE IF e \in ActiveBins
              THEN /\ w_data[e + 1] = BinnedClTable[neutrino_sample, tmpl, e, lbin]
                   /\ w_cov[e + 1] = SubsampledCovTable[neutrino_sample, tmpl, e, lbin]
                   /\ w_std[e + 1] =
                         IF err_type = "bootstrap"
                         THEN BootStdTable[neutrino_sample, tmpl, e, lbin, boot[e + 1]]
                         ELSE PolspiceStd(w_cov[e + 1], lbin)
              ELSE /\ \A k \in 1..Len(w_data[e + 1]) : w_data[e + 1][k] = Zero
                   /\ \A k \in 1..Len(w_std[e + 1]) : w_std[e + 1][k] = ZeroStd
                   /\ IsDiagonal(w_cov[e + 1])
                   /\ \A k \in 1..Len(w_cov[e + 1]) : w_cov[e + 1][k][k] = Zero

\* inputData has returned on a bootstrap engine that had ingested a sample
\* and run its sampler before: a chain is stored
C21_Witness ==
    /\ ret.op = "inputData"
    /\ ret.err = ""
    /\ cls = "BeamLikelihood"
    /\ err_type = "bootstrap"
    /\ ActiveBins # {}
    /\ chain # <<>>

C23_SkyFractionFromUsablePixels ==
    LET usable == {p \in 0..(NPIXEL - 1) : p \notin idx_mask}
    IN  f_sky = RSub(One, RDiv(R(Cardinality(usable)), R(NPIXEL)))

\* C24: when every pixel is masked the sky fraction is 0 and
\* calculate_w_mean, which divides by it, ends in an error.
C24_AllMaskedSkyRejected ==
    (ret.op = "calculate_w_mean" /\ Cardinality(idx_mask) = NPIXEL) =>
        /\ f_sky = Zero
        /\ ret.err # ""

\* C30: the signal template of a BeamLikelihood keeps the layout the
\* construction gave it, one value per coarse multipole bin, on the
\* multipole-bin axis of the observed spectrum.
C30_SignalTemplateLayout ==
    cls = "BeamLikelihood" =>
        /\ w_model_f1_ndim = 1
        /\ Len(w_model_f1) = Len(w_atm_mean[1])
        /\ (w_data # <<>> /\ ret.err = "") => Len(w_model_f1) = Len(w_data[1])

\* C25: a Likelihood constructed with computeSTD = False on a cache file
\* that is missing or not of shape (NEbin, NCL) fails: an engine that was
\* returned holds, for every energy bin and multipole, the background mean
\* and std the cache was written from.
C25_CacheShapeChecked ==
    (cls = "Likelihood" /\ w_atm_mean # <<>>) =>
        /\ w_atm_mean = LikelihoodTemplates(tmpl, "saved").w_atm_mean
        /\ w_atm_std = LikelihoodTemplates(tmpl, "saved").w_atm_std


\* C26: TS_distribution(N_re, f_diff) that returns normally returns exactly
\* N_re entries; each pass of its loop first ingests a new synthetic sample,
\* then fits the engine as that ingestion left it, then appends the TS of
\* that fit; N_re and the entries already written are never changed.
C26_TSDistributionLoop ==
    /\ [](ret.op = "TS_distribution" /\ ret.err = "" => Len(ret.TS_array) = ret.N_re)
    /\ [][ret.op \in {"TS_distribution.loop", "TS_distribution.fit"} =>
            /\ ret'.N_re = ret.N_re
            /\ ret.op = "TS_distribution.loop" /\ ret'.op # "TS_distribution" =>
                   /\ ret'.op = "TS_distribution.fit"
                   /\ Len(ret.TS_array) < ret.N_re
                   /\ ret'.TS_array = ret.TS_array
                   /\ neutrino_sample' \in SampleKinds
                   /\ \A e \in ActiveBins :
                         w_data'[e + 1] =
                            IF cls = "Likelihood"
                            THEN SampleCl(neutrino_sample', tmpl, e)
                            ELSE BinnedClTable[neutrino_sample', tmpl, e, lbin]
            /\ ret.op = "TS_distribution.fit" /\ ret'.err = "" =>
                   /\ ret'.op = "TS_distribution.loop"
                   /\ engine' = engine
                   /\ soln' \in minimize("diag", UnitStart, UnitBounds)
                   /\ ret'.TS_array = Append(ret.TS_array, minimize__lnL(soln').ts)
            /\ ret'.op = "TS_distribution" /\ ret'.err = "" =>
                   /\ ret.op = "TS_distribution.loop"
                   /\ ret'.TS_array = ret.TS_array
                   /\ UNCHANGED <<engine, soln>>]_vars

\* a call with N_re = 2 has returned its two entries
C26_Witness ==
    /\ ret.op = "TS_distribution"
    /\ ret.err = ""
    /\ ret.N_re = MaxN_re
    /\ Len(ret.TS_array) = MaxN_re
    /\ ActiveBins # {}

====
